---- MODULE Spec2Model ----
(***************************************************************************)
(* The SQL-expression bridge of pkg/expr/sql/db.go: DB.QueryFramesInto,    *)
(* DB.writeDataframeToDb, convertDataType and convertToDataFrame, run      *)
(* against one long-lived DB handle (NewInMemoryDB).                       *)
(*                                                                         *)
(* A Go value is a record [k |-> its dynamic type, v |-> its printed       *)
(* value]; the untyped nil is [k |-> "nil", v |-> ""].                     *)
(*                                                                         *)
(* The embedded engine (go-mysql-server) and the frame library             *)
(* (grafana-plugin-sdk-go) are called, not defined, by db.go.  What the    *)
(* model takes from them is stated at each definition:                     *)
(*   - memory.Database.AddTable stores the table under its name and        *)
(*     replaces a table already there;                                     *)
(*   - a memory table checks an inserted row against its schema and then   *)
(*     keeps the row's Go values as they are.  Whether a value whose Go    *)
(*     type is narrower than the column's (an int8 in an Int64 column)     *)
(*     passes that check differs between engine builds, so it is a         *)
(*     choice made once, in Init (strictRows);                             *)
(*   - an integer literal has the narrowest integer type that holds it,    *)
(*     a quoted literal is a LONGTEXT string;                              *)
(*   - data.Field.Append type-asserts the appended value to the field's    *)
(*     element type and panics when the assertion fails.                   *)
(***************************************************************************)
EXTENDS Integers, Sequences, FiniteSets, TLC

VARIABLES
    tables,     \* db.inMemoryDb: the tables of the handle's one database
    call,       \* per worker: the QueryFramesInto invocation it is in
    ncalls,     \* per worker: invocations started so far
    scen,       \* which bounded set the inputs are drawn from
    strictRows  \* the engine build verifies a row's Go types on insert

vars == <<tables, call, ncalls, scen, strictRows>>

----------------------------------------------------------------------------
(* Bounds *)

\* invocations one worker makes on the handle, one after the other
MaxCalls == 3

----------------------------------------------------------------------------
(* Go values, fields and frames (grafana-plugin-sdk-go/data) *)

Val(k, v) == [k |-> k, v |-> v]

NilVal == Val("nil", "")

\* data.FieldType tags of the supported enumeration
SupportedFieldTypes ==
    {"Int8", "Int16", "Int32", "Int64", "Uint8", "Uint16", "Uint32", "Uint64",
     "Float32", "Float64", "String", "Bool", "Time"}

\* tags outside it that a data.Field can carry
UnsupportedFieldTypes == {"JSON", "NullableString"}

\* the Go type of field.At(i) for a field of the given tag
ElemKind(ft) ==
    CASE ft = "Int8" -> "int8"
      [] ft = "Int16" -> "int16"
      [] ft = "Int32" -> "int32"
      [] ft = "Int64" -> "int64"
      [] ft = "Uint8" -> "uint8"
      [] ft = "Uint16" -> "uint16"
      [] ft = "Uint32" -> "uint32"
      [] ft = "Uint64" -> "uint64"
      [] ft = "Float32" -> "float32"
      [] ft = "Float64" -> "float64"
      [] ft = "String" -> "string"
      [] ft = "Bool" -> "bool"
      [] ft = "Time" -> "time.Time"
      [] ft = "JSON" -> "json.RawMessage"
      [] ft = "NullableString" -> "*string"

\* data.NewField(name, nil, []T{...})
NewField(name, ft, vs) ==
    [name |-> name, type |-> ft,
     vals |-> [i \in 1..Len(vs) |-> Val(ElemKind(ft), vs[i])]]

\* data.NewFrame(name, fields...)
NewFrame(name, fields) == [isNil |-> FALSE, name |-> name, fields |-> fields]

\* a nil *data.Frame
NilFrame == [isNil |-> TRUE, name |-> "", fields |-> <<>>]

\* var frame data.Frame
EmptyFrame == NewFrame("", <<>>)

\* frame.Rows(): the length of the first field, 0 without fields
Rows(frame) == IF Len(frame.fields) = 0 THEN 0 ELSE Len(frame.fields[1].vals)

----------------------------------------------------------------------------
(* Type Mapper: field type -> column type *)

\* a plausible slip: a tag outside the switch is given a text column
convertDataType_text(fieldType) ==
    IF fieldType \in {"Int8", "Int16", "Int32", "Int64"} THEN "Int64"
    ELSE IF fieldType \in {"Uint8", "Uint16", "Uint32", "Uint64"} THEN "Uint64"
    ELSE IF fieldType \in {"Float32", "Float64"} THEN "Float64"
    ELSE IF fieldType = "Bool" THEN "Boolean"
    ELSE IF fieldType = "Time" THEN "Timestamp"
    ELSE "Text"

\* a plausible slip: the narrow number types keep their width
convertDataType_width(fieldType) ==
    IF fieldType \in {"Int8", "Int16", "Int32", "Int64", "Uint8", "Uint16", "Uint32",
                      "Uint64", "Float32", "Float64"} THEN fieldType
    ELSE IF fieldType = "String" THEN "Text"
    ELSE IF fieldType = "Bool" THEN "Boolean"
    ELSE IF fieldType = "Time" THEN "Timestamp"
    ELSE "JSON"

\* convertDataType: never fails; any other tag becomes a JSON column
convertDataType(fieldType) ==
    IF fieldType \in {"Int8", "Int16", "Int32", "Int64"} THEN "Int64"
    ELSE IF fieldType \in {"Uint8", "Uint16", "Uint32", "Uint64"} THEN "Uint64"
    ELSE IF fieldType \in {"Float32", "Float64"} THEN "Float64"
    ELSE IF fieldType = "String" THEN "Text"
    ELSE IF fieldType = "Bool" THEN "Boolean"
    ELSE IF fieldType = "Time" THEN "Timestamp"
    ELSE "JSON"

\* &mysql.Column{Name, Type, Nullable: true, Source: tableName}
Column(name, type, source) ==
    [name |-> name, type |-> type, nullable |-> TRUE, source |-> source]

\* the schema writeDataframeToDb builds from the frame's fields
FrameSchema(tableName, frame) ==
    [j \in 1..Len(frame.fields) |->
        Column(frame.fields[j].name, convertDataType(frame.fields[j].type), tableName)]

\* row i of the frame (0-based, as in the loop): row[j] = field.At(i)
FrameRow(frame, i) ==
    [j \in 1..Len(frame.fields) |-> frame.fields[j].vals[i + 1]]

----------------------------------------------------------------------------
(* The engine's tables *)

\* the name of the database NewInMemoryDB creates, and the one the context selects
dbName == "mydb"

NoTable == [exists |-> FALSE, owner |-> <<0, 0, 0>>, schema |-> <<>>, rows |-> <<>>]

\* memory.NewTable(db, name, schema): an empty table; owner tells the table
\* objects of different writers apart
NewTable(owner, schema) ==
    [exists |-> TRUE, owner |-> owner, schema |-> schema, rows |-> <<>>]

\* the Go type a column of this type stores
ValueType(colType) ==
    CASE colType = "Int64" -> "int64"
      [] colType = "Uint64" -> "uint64"
      [] colType = "Float64" -> "float64"
      [] colType = "Text" -> "string"
      [] colType = "Boolean" -> "int8"
      [] colType = "Timestamp" -> "time.Time"
      [] OTHER -> "types.JSONDocument"

\* a time outside the TIMESTAMP range (before 1970)
OldTime == "1969-12-31"

\* Column.Check: nil needs a nullable column, any other value must convert
\* to the column's type; of the values a field of the mapped tag can hold,
\* only a time outside the TIMESTAMP range does not
ColumnCheck(col, val) ==
    IF val.k = "nil" THEN col.nullable
    ELSE ~(col.type = "Timestamp" /\ val.v = OldTime)

\* a build that verifies row types also wants the column's own Go type
RowTypeOK(col, val) ==
    ~strictRows \/ val.k = "nil" \/ val.k = ValueType(col.type)

\* what table.Insert checks before it keeps the row
CheckRow(schema, row) ==
    /\ Len(row) = Len(schema)
    /\ \A j \in 1..Len(row) : ColumnCheck(schema[j], row[j]) /\ RowTypeOK(schema[j], row[j])

----------------------------------------------------------------------------
(* Query Executor: the statements the model runs, and engine.Query *)

\* a statement without a LIMIT clause; LIMIT n is <<n>>
NoLimit == <<>>

\* SELECT <tok> AS <alias>, ...
SelectLiterals(lits) == [kind |-> "lit", lits |-> lits, tbl |-> "", limit |-> NoLimit]

\* SELECT * FROM <tbl> [LIMIT <limit>]
SelectStar(tbl, limit) == [kind |-> "star", lits |-> <<>>, tbl |-> tbl, limit |-> limit]

\* SELECT (SELECT * FROM <tbl>) AS x
SelectScalar(tbl) == [kind |-> "scalar", lits |-> <<>>, tbl |-> tbl, limit |-> NoLimit]

\* text the parser rejects
BadSyntax == [kind |-> "bad", lits |-> <<>>, tbl |-> "", limit |-> NoLimit]

Lit(tok, alias) == [tok |-> tok, alias |-> alias]

\* the column type of a literal
LitType(tok) ==
    CASE tok \in {"'1'", "'sam'"} -> "LongText"
      [] tok = "40" -> "Int8"
      [] tok = "300" -> "Int16"
      [] tok = "CAST(NULL AS CHAR)" -> "LongText"
      [] tok = "TRUE" -> "Boolean"

\* the Go value a literal evaluates to
LitVal(tok) ==
    CASE tok = "'1'" -> Val("string", "1")
      [] tok = "'sam'" -> Val("string", "sam")
      [] tok = "40" -> Val("int8", "40")
      [] tok = "300" -> Val("int16", "300")
      [] tok = "CAST(NULL AS CHAR)" -> NilVal
      [] tok = "TRUE" -> Val("bool", "true")

\* the rows a LIMIT clause lets through (all of them under NoLimit)
Take(s, limit) ==
    IF limit = NoLimit \/ limit[1] >= Len(s) THEN s ELSE SubSeq(s, 1, limit[1])

\* what engine.Query returns: err, or a schema and a row iterator; rowErr is
\* an iterator whose first Next fails
QueryResult(err, schema, rows, rowErr) ==
    [err |-> err, schema |-> schema, rows |-> rows, rowErr |-> rowErr]

\* a plausible slip: LIMIT is dropped
Query_nolimit(store, query) ==
    IF query.kind = "bad" THEN QueryResult(TRUE, <<>>, <<>>, FALSE)
    ELSE IF query.kind = "lit" THEN
        QueryResult(FALSE,
            [j \in 1..Len(query.lits) |->
                Column(query.lits[j].alias, LitType(query.lits[j].tok), "")],
            << [j \in 1..Len(query.lits) |-> LitVal(query.lits[j].tok)] >>, FALSE)
    ELSE IF ~store[query.tbl].exists THEN QueryResult(TRUE, <<>>, <<>>, FALSE)
    ELSE IF query.kind = "star" THEN
        QueryResult(FALSE, store[query.tbl].schema, store[query.tbl].rows, FALSE)
    ELSE IF Len(store[query.tbl].schema) # 1 THEN QueryResult(TRUE, <<>>, <<>>, FALSE)
    ELSE QueryResult(FALSE,
            << Column("x", store[query.tbl].schema[1].type, "") >>,
            IF Len(store[query.tbl].rows) = 0 THEN << <<NilVal>> >>
            ELSE << store[query.tbl].rows[1] >>,
            Len(store[query.tbl].rows) > 1)

\* engine.Query(ctx, query) over the tables of the current database
Query(store, query) ==
    IF query.kind = "bad" THEN QueryResult(TRUE, <<>>, <<>>, FALSE)
    ELSE IF query.kind = "lit" THEN
        QueryResult(FALSE,
            [j \in 1..Len(query.lits) |->
                Column(query.lits[j].alias, LitType(query.lits[j].tok), "")],
            << [j \in 1..Len(query.lits) |-> LitVal(query.lits[j].tok)] >>, FALSE)
    ELSE IF ~store[query.tbl].exists THEN QueryResult(TRUE, <<>>, <<>>, FALSE)
    ELSE IF query.kind = "star" THEN
        QueryResult(FALSE, store[query.tbl].schema,
                    Take(store[query.tbl].rows, query.limit), FALSE)
    ELSE IF Len(store[query.tbl].schema) # 1 THEN QueryResult(TRUE, <<>>, <<>>, FALSE)
    ELSE QueryResult(FALSE,
            << Column("x", store[query.tbl].schema[1].type, "") >>,
            IF Len(store[query.tbl].rows) = 0 THEN << <<NilVal>> >>
            ELSE << store[query.tbl].rows[1] >>,
            Len(store[query.tbl].rows) > 1)

----------------------------------------------------------------------------
(* Result Frame Builder: convertToDataFrame *)

\* mysql.NumberType: the integer and floating point column types
IsNumberType(colType) ==
    colType \in {"Int8", "Int16", "Int64", "Uint64", "Float64", "Boolean"}

\* mysql.StringType
IsStringType(colType) == colType \in {"Text", "LongText"}

\* the first switch: the field type chosen for a column, "" for default:
SchemaFieldType(colType) ==
    IF IsNumberType(colType) THEN "Int64"
    ELSE IF IsStringType(colType) THEN "String"
    ELSE ""

\* the first loop: fields are appended to f.Fields column by column, and the
\* loop returns at the first column of another type
RECURSIVE CreateFields(_, _, _)
CreateFields(schema, j, fields) ==
    IF j > Len(schema) THEN [err |-> "", fields |-> fields]
    ELSE IF SchemaFieldType(schema[j].type) = "" THEN
        [err |-> "unsupported type for column", fields |-> fields]
    ELSE CreateFields(schema, j + 1,
            Append(fields, [name |-> schema[j].name,
                            type |-> SchemaFieldType(schema[j].type), vals |-> <<>>]))

\* a plausible slip: the case int8 is missing
DecodeVal_noint8(val) ==
    IF val.k \in {"int64", "float64", "string", "bool"} THEN val
    ELSE Val("", "")

\* the second switch: the value handed to Append, k = "" for default:
DecodeVal(val) ==
    IF val.k = "int8" THEN Val("int64", val.v)
    ELSE IF val.k \in {"int64", "float64", "string", "bool"} THEN val
    ELSE Val("", "")

\* one row: f.Fields[i].Append per value, left to right; Append panics when
\* the value is not of the field's element type
RECURSIVE DecodeRow(_, _, _)
DecodeRow(row, j, fields) ==
    IF j > Len(row) THEN [err |-> "", fields |-> fields]
    ELSE IF DecodeVal(row[j]).k = "" THEN
        [err |-> "unsupported value type for column", fields |-> fields]
    ELSE IF j > Len(fields) \/ DecodeVal(row[j]).k # ElemKind(fields[j].type) THEN
        [err |-> "panic", fields |-> fields]
    ELSE DecodeRow(row, j + 1,
            [fields EXCEPT ![j].vals = Append(@, DecodeVal(row[j]))])

----------------------------------------------------------------------------
(* The inputs the invocations are drawn from *)

TableNames == {"t", "u"}

Workers == {1, 2}

\* the frame of TestQueryFramesInto, under a short name
FrameA == NewFrame("t", << NewField("label", "String", <<"Garfana", "Pormetheus">>) >>)

\* a frame of the same name with other contents
FrameB == NewFrame("t", << NewField("label", "String", <<"Loki">>) >>)

FrameU == NewFrame("u", << NewField("n", "Int64", <<"7", "8">>) >>)

\* its second row does not fit a TIMESTAMP column
FrameOldTime == NewFrame("u", << NewField("ts", "Time", <<"2024-11-04", OldTime>>) >>)

SampleVals(ft) ==
    CASE ft \in {"Int8", "Int16", "Int32", "Int64", "Uint8", "Uint16", "Uint32", "Uint64"}
            -> <<"1", "2">>
      [] ft \in {"Float32", "Float64"} -> <<"1.5", "2.5">>
      [] ft = "Bool" -> <<"true", "false">>
      [] ft = "Time" -> <<"2024-11-04", "2024-11-05">>
      [] ft = "JSON" -> <<"{}", "[]">>
      [] OTHER -> <<"a", "b">>

\* a frame t with one column c of the given type
TypeFrame(ft) == NewFrame("t", << NewField("c", ft, SampleVals(ft)) >>)

\* a frame t with a string column and a column of the given type
TwoColFrame(ft) ==
    NewFrame("t", << NewField("label", "String", <<"a", "b">>),
                     NewField("c", ft, SampleVals(ft)) >>)

EmptyColFrame == NewFrame("t", << NewField("label", "String", <<>>) >>)

\* an output frame that already holds a field
UsedFrame == NewFrame("old", << NewField("label", "String", <<"x">>) >>)

QueryOne == SelectLiterals(<< Lit("'1'", "n") >>)

QuerySam == SelectLiterals(<< Lit("'sam'", "name"), Lit("40", "age") >>)

Input(tableName, query, frames, f) ==
    [tableName |-> tableName, query |-> query, frames |-> frames, f |-> f]

\* one worker, invocations one after the other
SeqInputs ==
    { Input(n, q, fs, EmptyFrame) :
        n \in TableNames,
        q \in {SelectStar("t", NoLimit), SelectStar("t", <<1>>), SelectStar("u", NoLimit),
               QuerySam, BadSyntax},
        fs \in {<<>>, <<FrameA>>, <<FrameB>>, <<FrameA, FrameB>>, <<FrameU>>,
                <<FrameOldTime>>, <<FrameA, NilFrame>>} }

\* two workers, one invocation each, at the same time
ConcInputs ==
    { Input(n, q, fs, EmptyFrame) :
        n \in TableNames,
        q \in {SelectStar("t", NoLimit), QueryOne},
        fs \in {<<>>, <<FrameA>>, <<FrameB>>} }

\* one invocation, every field type and every kind of result value
TypeInputs ==
    { Input("t", q, fs, f) :
        q \in {SelectStar("t", NoLimit), SelectScalar("t")},
        fs \in { <<TypeFrame(ft)>> : ft \in SupportedFieldTypes \cup UnsupportedFieldTypes }
               \cup { <<TwoColFrame(ft)>> : ft \in {"Int64", "Uint64", "Float64", "Bool"} }
               \cup { <<EmptyColFrame>>, <<FrameU, FrameA>>, <<NilFrame, FrameA>> },
        f \in {EmptyFrame, UsedFrame} }
    \cup
    { Input("t", q, <<>>, f) :
        q \in {QueryOne, QuerySam, BadSyntax,
               SelectLiterals(<< Lit("300", "x") >>),
               SelectLiterals(<< Lit("'1'", "n"), Lit("CAST(NULL AS CHAR)", "m") >>),
               SelectLiterals(<< Lit("CAST(NULL AS CHAR)", "m"), Lit("'1'", "n") >>)},
        f \in {EmptyFrame, UsedFrame} }

Inputs(s) ==
    CASE s = "seq" -> SeqInputs
      [] s = "conc" -> ConcInputs
      [] s = "types" -> TypeInputs

\* the workers that call, and how often each
Callers(s) == IF s = "conc" THEN Workers ELSE {1}

CallsPer(s) == IF s = "seq" THEN MaxCalls ELSE 1

----------------------------------------------------------------------------
(* State *)

\* what an invocation keeps of the one the same worker made just before, when
\* it is made again with the same arguments
NoPrev == [valid |-> FALSE, pc |-> "idle", f |-> EmptyFrame, err |-> ""]

\* a worker outside QueryFramesInto
IdleCall ==
    [pc |-> "idle",
     tableName |-> "", query |-> BadSyntax, frames |-> <<>>,   \* the arguments
     f |-> EmptyFrame,       \* *f, the caller's output frame
     f0 |-> EmptyFrame,      \* *f as it was handed in
     session |-> <<0, 0>>,   \* the session of ctx
     currentDb |-> "",       \* the current database of ctx
     i |-> 0,                \* index of the frame being written (1-based)
     added |-> FALSE,        \* its table has been created and added
     r |-> 0,                \* next row of that frame to insert (0-based)
     schema |-> <<>>,        \* the result schema
     iter |-> <<>>,          \* rows the iterator has yet to yield
     cursor |-> "none",      \* the iterator: "none", "open", or "closed" by iter.Close
     rowErr |-> FALSE,       \* the iterator's Next will fail
     fieldsDone |-> FALSE,   \* the first loop of convertToDataFrame is over
     err |-> "",             \* the error returned
     alone |-> TRUE,         \* no other invocation ran during this one
     seen |-> [n \in TableNames |-> NoTable],   \* the tables engine.Query saw
     prev |-> NoPrev,
     frames0 |-> <<>>,       \* the input frames as they were handed in
     past |-> {},            \* the sessions of this worker's earlier invocations
     trail |-> <<>>,         \* the phases entered, in order
     ins |-> <<>>,           \* per frame: rows table.Insert has taken
     nMat |-> <<>>,          \* per frame: calls of writeDataframeToDb
     nExec |-> 0,            \* calls of engine.Query
     nDec |-> 0,             \* calls of convertToDataFrame
     nNext |-> 0]            \* calls of iter.Next

Terminal == {"Succeeded", "Failed"}

InFlight(c) == c.pc \in {"Created", "Materializing", "Executing", "Decoding"}

TypeOK ==
    /\ scen \in {"seq", "conc", "types"}
    /\ strictRows \in BOOLEAN
    /\ \A w \in Workers :
        /\ call[w].pc \in {"idle", "Created", "Materializing", "Executing",
                           "Decoding", "Succeeded", "Failed", "Panicked"}
        /\ ncalls[w] \in 0..CallsPer(scen)
    /\ \A n \in TableNames : tables[n].exists \in BOOLEAN

\* NewInMemoryDB: a database without tables; no worker has called yet
Init ==
    /\ tables = [n \in TableNames |-> NoTable]
    /\ call = [w \in Workers |-> IdleCall]
    /\ ncalls = [w \in Workers |-> 0]
    /\ scen \in {"seq", "conc", "types"}
    /\ strictRows \in BOOLEAN

----------------------------------------------------------------------------
(* DB.QueryFramesInto, step by step *)

\* a plausible slip: the error is noted and the invocation goes on
Fail_retry(c, err) == [c EXCEPT !.err = err]

\* the return of an error
Fail(c, err) == [c EXCEPT !.pc = "Failed", !.err = err, !.trail = Append(@, "Failed")]

\* the table object writeDataframeToDb holds for frame i of this invocation
Owner(w, c) == <<w, ncalls[w], c.i>>

\* after the last row of frame i: writeDataframeToDb returns nil and the
\* loop over the frames goes on
NextFrame(c) == [c EXCEPT !.i = c.i + 1, !.added = FALSE, !.r = 0]

\* a worker calls db.QueryFramesInto(tableName, query, frames, f); a panic
\* in any goroutine has ended the process
Start(w) ==
    /\ w \in Callers(scen)
    /\ call[w].pc \in Terminal \cup {"idle"}
    /\ \A v \in Workers : call[v].pc # "Panicked"
    /\ ncalls[w] < CallsPer(scen)
    /\ \E in \in Inputs(scen), again \in BOOLEAN :
        /\ again =>
            /\ call[w].pc \in Terminal
            /\ Input(call[w].tableName, call[w].query, call[w].frames, call[w].f0) = in
        /\ call' = [v \in Workers |->
              IF v = w
              THEN [IdleCall EXCEPT
                      !.pc = "Created",
                      !.tableName = in.tableName, !.query = in.query,
                      !.frames = in.frames, !.f = in.f, !.f0 = in.f,
                      !.frames0 = in.frames,
                      !.past = IF call[w].pc = "idle" THEN {}
                               ELSE call[w].past \cup {call[w].session},
                      !.trail = <<"Created">>,
                      !.ins = [k \in 1..Len(in.frames) |-> 0],
                      !.nMat = [k \in 1..Len(in.frames) |-> 0],
                      !.alone = \A x \in Workers \ {w} : ~InFlight(call[x]),
                      !.prev = IF again
                               THEN [valid |-> TRUE, pc |-> call[w].pc,
                                     f |-> call[w].f, err |-> call[w].err]
                               ELSE NoPrev]
              ELSE IF InFlight(call[v]) THEN [call[v] EXCEPT !.alone = FALSE]
              ELSE call[v]]
    /\ ncalls' = [ncalls EXCEPT ![w] = @ + 1]
    /\ UNCHANGED <<tables, scen, strictRows>>

\* a plausible slip: the output frame takes the name of the first input frame
OutputName_frame(c) == IF Len(c.frames) > 0 THEN c.frames[1].name ELSE c.tableName

\* the name given to the output frame: the tableName argument
OutputName(c) == c.tableName

\* a plausible change: one session kept with the handle and used by every call
NewSession_shared(w) == <<1, 1>>

\* memory.NewSession and mysql.NewContext: a session and context of this
\* invocation alone
NewSession(w) == <<w, ncalls[w]>>

\* f.Name = tableName; the provider, session and context of this invocation
Begin(w) ==
    LET c == call[w] IN
    /\ c.pc = "Created"
    /\ call' = [call EXCEPT ![w] =
          [c EXCEPT !.f.name = OutputName(c),
                    !.session = NewSession(w),
                    !.i = 1,
                    !.pc = "Materializing", !.trail = Append(@, "Materializing")]]
    /\ UNCHANGED <<tables, ncalls, scen, strictRows>>

\* a plausible slip: the nil check is missing
IsNil_unchecked(frame) == FALSE

\* the check at the head of writeDataframeToDb: frame == nil
IsNil(frame) == frame.isNil

\* writeDataframeToDb: frame == nil
NilFrameError(w) ==
    /\ call[w].pc = "Materializing" /\ ~call[w].added
    /\ call[w].i <= Len(call[w].frames)
    /\ IsNil(call[w].frames[call[w].i])
    /\ call' = [call EXCEPT ![w] =
          Fail([@ EXCEPT !.nMat[call[w].i] = @ + 1], "input frame is nil")]
    /\ UNCHANGED <<tables, ncalls, scen, strictRows>>

\* a plausible change: the table is named after the frame
TargetTable_frame(c) == c.frames[c.i].name

\* the table a frame is written to: the tableName argument
TargetTable(c) == c.tableName

\* a plausible slip: the frame is given the name of its table
FramesRead_renamed(c) == [c.frames EXCEPT ![c.i].name = c.tableName]

\* the input frames after writeDataframeToDb has used frame i: it calls
\* Name, Type, Rows and At of the fields, which only read
FramesRead(c) == c.frames

\* a plausible slip: a table already under the name is kept and written on
AddedTable_keep(old, owner, schema) ==
    IF old.exists THEN [old EXCEPT !.owner = owner] ELSE NewTable(owner, schema)

\* a plausible slip: the new table takes over the rows of the one it replaces
AddedTable_append(old, owner, schema) == [NewTable(owner, schema) EXCEPT !.rows = old.rows]

\* what the database holds under the name after memory.NewTable and AddTable:
\* the new, empty table, whatever was there
AddedTable(old, owner, schema) == NewTable(owner, schema)

\* writeDataframeToDb: the schema, memory.NewTable and AddTable, which
\* replaces a table of that name
AddTable(w) ==
    LET c == call[w] IN
    /\ c.pc = "Materializing" /\ ~c.added
    /\ c.i <= Len(c.frames)
    /\ ~IsNil(c.frames[c.i])
    /\ tables' = [tables EXCEPT ![TargetTable(c)] =
                    AddedTable(@, Owner(w, c), FrameSchema(TargetTable(c), c.frames[c.i]))]
    /\ call' = [call EXCEPT ![w] =
          LET d == [c EXCEPT !.nMat[c.i] = @ + 1, !.frames = FramesRead(c)] IN
          IF Rows(c.frames[c.i]) = 0 THEN NextFrame(d)
          ELSE [d EXCEPT !.added = TRUE, !.r = 0]]
    /\ UNCHANGED <<ncalls, scen, strictRows>>

\* a plausible slip: the insert loop stops one row short
LastRow_early(frame, r) == r + 2 >= Rows(frame)

\* the insert loop's condition: row r (0-based) is the last of the frame
LastRow(frame, r) == r + 1 = Rows(frame)

\* one turn of the insert loop, table.Insert succeeding.  The row goes into
\* the table object this invocation created, which the database still holds
\* only if no later AddTable replaced it.
InsertRow(w) ==
    LET c == call[w]
        frame == c.frames[c.i]
        row == FrameRow(frame, c.r)
    IN
    /\ c.pc = "Materializing" /\ c.added /\ c.r < Rows(frame)
    /\ CheckRow(FrameSchema(TargetTable(c), frame), row)
    /\ tables' = IF tables[TargetTable(c)].owner = Owner(w, c)
                 THEN [tables EXCEPT ![TargetTable(c)].rows = Append(@, row)]
                 ELSE tables
    /\ call' = [call EXCEPT ![w] =
          LET d == [c EXCEPT !.ins[c.i] = @ + 1, !.frames = FramesRead(c)] IN
          IF LastRow(frame, c.r) THEN NextFrame(d) ELSE [d EXCEPT !.r = c.r + 1]]
    /\ UNCHANGED <<ncalls, scen, strictRows>>

\* one turn of the insert loop, table.Insert failing
InsertError(w) ==
    LET c == call[w]
        frame == c.frames[c.i]
    IN
    /\ c.pc = "Materializing" /\ c.added /\ c.r < Rows(frame)
    /\ ~CheckRow(FrameSchema(TargetTable(c), frame), FrameRow(frame, c.r))
    /\ call' = [call EXCEPT ![w] = Fail(c, "error inserting row")]
    /\ UNCHANGED <<tables, ncalls, scen, strictRows>>

\* the loop over the frames is over: every frame has been written
FramesDone(w) ==
    LET c == call[w] IN
    /\ c.pc = "Materializing" /\ ~c.added
    /\ c.i > Len(c.frames)
    /\ call' = [call EXCEPT ![w] =
          [c EXCEPT !.pc = "Executing", !.trail = Append(@, "Executing")]]
    /\ UNCHANGED <<tables, ncalls, scen, strictRows>>

\* the tables the statement is run over: those of the handle's database
VisibleTables(c) == tables

\* ctx.SetCurrentDatabase(dbName); engine.Query succeeding
Execute(w) ==
    LET c == call[w]
        res == Query(VisibleTables(c), c.query)
    IN
    /\ c.pc = "Executing"
    /\ ~res.err
    /\ call' = [call EXCEPT ![w] =
          [c EXCEPT !.currentDb = dbName, !.pc = "Decoding",
                    !.trail = Append(@, "Decoding"), !.nExec = @ + 1,
                    !.schema = res.schema, !.iter = res.rows, !.rowErr = res.rowErr,
                    !.cursor = "open",
                    !.seen = VisibleTables(c)]]
    /\ UNCHANGED <<tables, ncalls, scen, strictRows>>

\* engine.Query returning an error
ExecuteError(w) ==
    LET c == call[w] IN
    /\ c.pc = "Executing"
    /\ Query(VisibleTables(c), c.query).err
    /\ call' = [call EXCEPT ![w] =
          [Fail(c, "query error") EXCEPT !.currentDb = dbName, !.nExec = @ + 1,
                                         !.seen = VisibleTables(c)]]
    /\ UNCHANGED <<tables, ncalls, scen, strictRows>>

\* convertToDataFrame, first loop: one field per column of the schema
MakeFields(w) ==
    LET c == call[w]
        res == CreateFields(c.schema, 1, c.f.fields)
    IN
    /\ c.pc = "Decoding" /\ ~c.fieldsDone
    /\ res.err = ""
    /\ call' = [call EXCEPT ![w] = [c EXCEPT !.f.fields = res.fields, !.fieldsDone = TRUE, !.nDec = @ + 1]]
    /\ UNCHANGED <<tables, ncalls, scen, strictRows>>

\* convertToDataFrame, first loop: a column of a type the switch does not know
MakeFieldsError(w) ==
    LET c == call[w]
        res == CreateFields(c.schema, 1, c.f.fields)
    IN
    /\ c.pc = "Decoding" /\ ~c.fieldsDone
    /\ res.err # ""
    /\ call' = [call EXCEPT ![w] = [Fail(c, res.err) EXCEPT !.f.fields = res.fields, !.nDec = @ + 1]]
    /\ UNCHANGED <<tables, ncalls, scen, strictRows>>

\* convertToDataFrame, second loop: iter.Next yields a row and every value of
\* it is appended
ReadRow(w) ==
    LET c == call[w]
        res == DecodeRow(Head(c.iter), 1, c.f.fields)
    IN
    /\ c.pc = "Decoding" /\ c.fieldsDone
    /\ ~c.rowErr /\ c.iter # <<>>
    /\ res.err = ""
    /\ call' = [call EXCEPT ![w] = [c EXCEPT !.f.fields = res.fields, !.iter = Tail(c.iter), !.nNext = @ + 1]]
    /\ UNCHANGED <<tables, ncalls, scen, strictRows>>

\* second loop: a value of a type the switch does not know
ReadRowError(w) ==
    LET c == call[w]
        res == DecodeRow(Head(c.iter), 1, c.f.fields)
    IN
    /\ c.pc = "Decoding" /\ c.fieldsDone
    /\ ~c.rowErr /\ c.iter # <<>>
    /\ res.err \notin {"", "panic"}
    /\ call' = [call EXCEPT ![w] =
          [Fail(c, res.err) EXCEPT !.f.fields = res.fields, !.iter = Tail(c.iter),
                                   !.nNext = @ + 1]]
    /\ UNCHANGED <<tables, ncalls, scen, strictRows>>

\* second loop: Append panics on a value that is not of the field's type
AppendPanic(w) ==
    LET c == call[w]
        res == DecodeRow(Head(c.iter), 1, c.f.fields)
    IN
    /\ c.pc = "Decoding" /\ c.fieldsDone
    /\ ~c.rowErr /\ c.iter # <<>>
    /\ res.err = "panic"
    /\ call' = [call EXCEPT ![w] =
          [c EXCEPT !.pc = "Panicked", !.err = "panic",
                    !.trail = Append(@, "Panicked"), !.nNext = @ + 1,
                    !.f.fields = res.fields, !.iter = Tail(c.iter)]]
    /\ UNCHANGED <<tables, ncalls, scen, strictRows>>

\* second loop: iter.Next returns an error other than io.EOF
NextError(w) ==
    LET c == call[w] IN
    /\ c.pc = "Decoding" /\ c.fieldsDone
    /\ c.rowErr
    /\ call' = [call EXCEPT ![w] = [Fail(c, "error reading row") EXCEPT !.nNext = @ + 1]]
    /\ UNCHANGED <<tables, ncalls, scen, strictRows>>

\* second loop: iter.Next returns io.EOF; QueryFramesInto returns nil
EndOfRows(w) ==
    LET c == call[w] IN
    /\ c.pc = "Decoding" /\ c.fieldsDone
    /\ ~c.rowErr /\ c.iter = <<>>
    /\ call' = [call EXCEPT ![w] =
          [c EXCEPT !.pc = "Succeeded", !.trail = Append(@, "Succeeded"), !.nNext = @ + 1]]
    /\ UNCHANGED <<tables, ncalls, scen, strictRows>>

Next ==
    \E w \in Workers :
        \/ Start(w)
        \/ Begin(w)
        \/ NilFrameError(w)
        \/ AddTable(w)
        \/ InsertRow(w)
        \/ InsertError(w)
        \/ FramesDone(w)
        \/ Execute(w)
        \/ ExecuteError(w)
        \/ MakeFields(w)
        \/ MakeFieldsError(w)
        \/ ReadRow(w)
        \/ ReadRowError(w)
        \/ AppendPanic(w)
        \/ NextError(w)
        \/ EndOfRows(w)

Spec == Init /\ [][Next]_vars

\* a step of the invocation worker w is in
Step(w) ==
    \/ Begin(w) \/ NilFrameError(w) \/ AddTable(w) \/ InsertRow(w) \/ InsertError(w)
    \/ FramesDone(w) \/ Execute(w) \/ ExecuteError(w)
    \/ MakeFields(w) \/ MakeFieldsError(w)
    \/ ReadRow(w) \/ ReadRowError(w) \/ AppendPanic(w) \/ NextError(w) \/ EndOfRows(w)

\* the goroutine of an invocation is scheduled again and again, and neither
\* the engine nor the iterator blocks: an invocation that can take a step
\* takes one.  Callers need not call.
FairSpec == Spec /\ \A w \in Workers : WF_vars(Step(w))

----------------------------------------------------------------------------
(* Notions the claims are stated with *)

\* the invocation has returned, or has panicked
Finished(c) == c.pc \in {"Succeeded", "Failed", "Panicked"}

\* engine.Query has been called
Executed(c) == c.currentDb = dbName

\* all rows of a frame, in frame order
AllRows(frame) == [k \in 1..Rows(frame) |-> FrameRow(frame, k - 1)]

\* a table without the identity of its object
View(t) == [exists |-> t.exists, schema |-> t.schema, rows |-> t.rows]

\* the tables an empty database holds once the frames of this invocation,
\* and nothing else, have been written to it
OwnTables(c) ==
    [n \in TableNames |->
        IF Len(c.frames) > 0 /\ n = c.tableName
        THEN [NewTable(<<0, 0, 0>>, FrameSchema(n, c.frames[Len(c.frames)]))
                EXCEPT !.rows = AllRows(c.frames[Len(c.frames)])]
        ELSE NoTable]

\* the frame has a field whose type is outside the supported enumeration
HasUnsupportedField(frame) ==
    \E j \in 1..Len(frame.fields) : frame.fields[j].type \notin SupportedFieldTypes

\* the runtime kinds of the closed union {Int64, Float64, String, Bool, Null};
\* an int8 counts as an integer
DecodableKinds == {"int8", "int64", "float64", "string", "bool", "nil"}

\* the rows engine.Query handed to the decoder
ResultRows(c) == Query(c.seen, c.query).rows

\* some value of the result is of a kind outside the closed union
HasUndecodable(rows) ==
    \E k \in 1..Len(rows) : \E j \in 1..Len(rows[k]) : rows[k][j].k \notin DecodableKinds

----------------------------------------------------------------------------
(* Claims *)

\* C1: in an invocation that ran with no other invocation beside it, the
\* tables its query can see are exactly those made from its own input
\* frames; nothing an earlier invocation wrote is still there.
C1_OnlyOwnTablesVisible ==
    \A w \in Workers :
        (Executed(call[w]) /\ call[w].alone) =>
            \A n \in TableNames : View(call[w].seen[n]) = View(OwnTables(call[w])[n])

\* C2: of two invocations that run at the same time under the same table
\* name with different frames, each gets the result of its query over its
\* own frames only.
C2_ConcurrentIsolation ==
    \A w \in Workers : \A v \in Workers \ {w} :
        (/\ Executed(call[w]) /\ ~call[w].alone
         /\ Len(call[w].frames) > 0 /\ Len(call[v].frames) > 0
         /\ call[v].tableName = call[w].tableName
         /\ call[v].frames # call[w].frames) =>
            Query(call[w].seen, call[w].query) = Query(OwnTables(call[w]), call[w].query)

\* C3: once the frames are written, every input frame named N has a table N,
\* and SELECT * FROM N yields the rows of the last frame of that name.
C3_TableNamedAfterFrame ==
    \A w \in Workers :
        (call[w].pc = "Executing" /\ call[w].alone) =>
            \A k \in 1..Len(call[w].frames) :
                LET frame == call[w].frames[k]
                    res == Query(tables, SelectStar(frame.name, NoLimit))
                IN  /\ ~res.err
                    /\ (\A m \in (k + 1)..Len(call[w].frames) :
                            call[w].frames[m].name # frame.name)
                        => res.rows = AllRows(frame)

\* C4: when the invocation returns an error, the caller's output frame is as
\* it was handed in: no name, field or value of this invocation is in it.
C4_NoPartialFrame ==
    \A w \in Workers : call[w].pc = "Failed" => call[w].f = call[w].f0

\* C5: an invocation with one frame of supported field types, written under
\* its own name and read back with SELECT * FROM that name into a fresh
\* output frame, succeeds with the frame's fields: same order, names, types
\* and values.
C5_RoundTrip ==
    \A w \in Workers :
        LET c == call[w] IN
        (/\ Finished(c) /\ c.alone
         /\ Len(c.frames) = 1
         /\ ~c.frames[1].isNil /\ ~HasUnsupportedField(c.frames[1])
         /\ c.frames[1].name = c.tableName
         /\ c.query = SelectStar(c.tableName, NoLimit)
         /\ c.f0 = EmptyFrame) =>
            c.pc = "Succeeded" /\ c.f.fields = c.frames[1].fields

\* C6: an invocation made again right after itself, with the same table
\* name, query, frames and a fresh output frame, ends as the first did: same
\* outcome, same error, same output frame.
C6_Idempotent ==
    \A w \in Workers :
        LET c == call[w] IN
        (Finished(c) /\ c.prev.valid /\ c.alone) =>
            c.pc = c.prev.pc /\ c.err = c.prev.err /\ c.f = c.prev.f

\* a repeated invocation that found tables of an earlier one and returned rows
C6_Witness ==
    \E w \in Workers :
        /\ call[w].pc = "Succeeded" /\ call[w].prev.valid
        /\ ncalls[w] = 3
        /\ Len(call[w].frames) > 0
        /\ Len(call[w].f.fields) > 0 /\ Len(call[w].f.fields[1].vals) = 2

\* C7: a frame with a field of an unsupported type makes the invocation fail
\* when its table is defined: no table is created for it, no row of it is
\* inserted and the query is not run.
C7_UnsupportedTypeFailsEarly ==
    \A w \in Workers :
        LET c == call[w] IN
        /\ (c.pc = "Materializing" /\ c.i <= Len(c.frames)
                /\ HasUnsupportedField(c.frames[c.i])) => ~c.added
        /\ (\E k \in 1..Len(c.frames) : HasUnsupportedField(c.frames[k])) =>
                c.pc \notin {"Executing", "Decoding", "Succeeded", "Panicked"}

\* C8: when the result holds a value of a kind outside {Int64, Float64,
\* String, Bool, Null}, in whatever row and column, the invocation returns a
\* decode error and leaves no frame.
C8_UndecodableValueFails ==
    \A w \in Workers :
        LET c == call[w] IN
        (/\ Finished(c) /\ Executed(c)
         /\ ~Query(c.seen, c.query).err /\ ~c.rowErr
         /\ HasUndecodable(ResultRows(c))) =>
            /\ c.pc = "Failed"
            /\ c.err \in {"unsupported value type for column", "unsupported type for column"}
            /\ c.f = c.f0

\* C9: a result of string columns whose values are strings or Null decodes
\* into a fresh output frame: the invocation succeeds and a Null in row k of
\* column j is the null entry k of field j.
C9_NullBecomesAbsent ==
    \A w \in Workers :
        LET c == call[w]
            rows == ResultRows(c)
        IN
        (/\ Finished(c) /\ Executed(c)
         /\ ~Query(c.seen, c.query).err /\ ~c.rowErr
         /\ c.f0 = EmptyFrame
         /\ \A j \in 1..Len(c.schema) : IsStringType(c.schema[j].type)
         /\ \A k \in 1..Len(rows) : \A j \in 1..Len(rows[k]) :
                rows[k][j].k \in {"string", "nil"}) =>
            /\ c.pc = "Succeeded"
            /\ \A k \in 1..Len(rows) : \A j \in 1..Len(rows[k]) :
                rows[k][j].k = "nil" => c.f.fields[j].vals[k] = NilVal

\* the output frame of a SELECT of aliased literals: one field per literal, in
\* select order, named by the alias, holding the literal's one value
LiteralFields(lits) ==
    [j \in 1..Len(lits) |->
        [name |-> lits[j].alias,
         type |-> IF lits[j].tok = "40" THEN "Int64" ELSE "String",
         vals |-> << IF lits[j].tok = "40" THEN Val("int64", "40")
                     ELSE IF lits[j].tok = "'1'" THEN Val("string", "1")
                     ELSE Val("string", "sam") >>]]

C11_FirstRowOfFrame ==
    \A w \in Workers :
        LET c == call[w] IN
        (/\ Finished(c) /\ c.alone
         /\ Len(c.frames) = 1 /\ ~c.frames[1].isNil
         /\ \A j \in 1..Len(c.frames[1].fields) : c.frames[1].fields[j].type = "String"
         /\ Rows(c.frames[1]) >= 1
         /\ c.query = SelectStar(c.frames[1].name, <<1>>)
         /\ c.f0 = EmptyFrame) =>
            /\ c.pc = "Succeeded"
            /\ Len(c.f.fields) = Len(c.frames[1].fields)
            /\ \A j \in 1..Len(c.f.fields) :
                   c.f.fields[j].vals = << c.frames[1].fields[j].vals[1] >>

\* C12: the output frame of a successful invocation is named by the
\* tableName argument, whatever the query and the input frames, also when an
\* input frame has another name.
C12_OutputNamedByCaller ==
    \A w \in Workers :
        call[w].pc = "Succeeded" => call[w].f.name = call[w].tableName

\* a successful invocation whose input frame is named otherwise than the output
C12_Witness ==
    \E w \in Workers :
        /\ call[w].pc = "Succeeded"
        /\ Len(call[w].frames) > 0 /\ ~call[w].frames[1].isNil
        /\ call[w].frames[1].name # call[w].tableName
        /\ call[w].f.name = call[w].tableName

\* the rows of the result the decoder has taken from the iterator
RowsConsumed(c) == Len(ResultRows(c)) - Len(c.iter)

\* C13: a frame that an invocation hands back in a fresh output frame,
\* whether it returned nil or an error, has one field per result column and
\* every field holds as many values as rows were consumed; no ragged frame.
C13_RectangularFrame ==
    \A w \in Workers :
        LET c == call[w] IN
        (/\ c.pc \in Terminal /\ c.f0 = EmptyFrame
         /\ c.f.fields # <<>>) =>
            /\ Len(c.f.fields) = Len(c.schema)
            /\ \A j \in 1..Len(c.f.fields) :
                   Len(c.f.fields[j].vals) = RowsConsumed(c)

\* engine.Query has been reached: the invocation is about to run the query,
\* or has run it
ExecutionBegun(c) ==
    \/ c.pc \in {"Executing", "Decoding", "Succeeded", "Panicked"}
    \/ c.pc = "Failed" /\ Executed(c)

Insertable(tableName, frame) ==
    /\ ~frame.isNil
    /\ \A k \in 1..Rows(frame) :
           CheckRow(FrameSchema(tableName, frame), FrameRow(frame, k - 1))

\* C15: in an invocation that ran alone with several input frames, all
\* written under the tableName argument, the table left under that name when
\* the query is about to run has the columns and the rows of the last frame
\* and nothing of an earlier one; and frames that can each be written alone
\* are written one after the other without an error.
C15_LastWriteWins ==
    \A w \in Workers :
        LET c == call[w]
            last == c.frames[Len(c.frames)]
        IN
        (c.alone /\ Len(c.frames) >= 2) =>
            /\ c.pc = "Executing" =>
                   /\ tables[c.tableName].exists
                   /\ tables[c.tableName].schema = FrameSchema(c.tableName, last)
                   /\ tables[c.tableName].rows = AllRows(last)
            /\ (\A k \in 1..Len(c.frames) : Insertable(c.tableName, c.frames[k])) =>
                   ~(c.pc = "Failed" /\ ~Executed(c))

\* the table of a frame of other columns and rows has been replaced
C15_Witness ==
    \E w \in Workers :
        /\ call[w].pc = "Executing" /\ call[w].alone
        /\ call[w].frames = <<FrameU, FrameA>>
        /\ tables[call[w].tableName].rows = AllRows(FrameA)
        /\ tables[call[w].tableName].schema # FrameSchema(call[w].tableName, FrameU)

\* the phases of an invocation before its end, in their order
PhaseOrder == <<"Created", "Materializing", "Executing", "Decoding">>

\* the trail is the first phases of PhaseOrder, each once, with nothing after
\* them or one of the ends
OrderedTrail(trail, ends) ==
    \E n \in 1..Len(PhaseOrder) :
        \/ trail = SubSeq(PhaseOrder, 1, n)
        \/ \E e \in ends : trail = Append(SubSeq(PhaseOrder, 1, n), e)

\* C16: an invocation with a fresh output frame goes through Created,
\* Materializing, Executing and Decoding in this order, none twice and none
\* backwards, and ends in Succeeded or in Failed; one that ends in Succeeded
\* went through all four.
C16_PhasesInOrder ==
    \A w \in Workers :
        LET c == call[w] IN
        (c.pc # "idle" /\ c.f0 = EmptyFrame) =>
            /\ OrderedTrail(c.trail, Terminal)
            /\ c.pc = c.trail[Len(c.trail)]
            /\ c.pc = "Succeeded" => c.trail = Append(PhaseOrder, "Succeeded")

\* the phase the invocation was in when it returned its error
FailedIn(c, phase) ==
    /\ c.pc = "Failed"
    /\ Len(c.trail) >= 2 /\ c.trail[Len(c.trail) - 1] = phase

\* what C17 says of one state: nothing is attempted twice, and what follows
\* the failed step has not been attempted at all
AttemptedOnce(c) ==
    /\ \A k \in 1..Len(c.nMat) : c.nMat[k] <= 1
    /\ c.nExec <= 1 /\ c.nDec <= 1
    /\ FailedIn(c, "Materializing") =>
           /\ c.nExec = 0 /\ c.nDec = 0 /\ c.nNext = 0
           /\ \A k \in (c.i + 1)..Len(c.frames) : c.nMat[k] = 0 /\ c.ins[k] = 0
    /\ FailedIn(c, "Executing") => c.nDec = 0 /\ c.nNext = 0

\* C17: a failure ends the invocation.  Each frame is written at most once,
\* the query run at most once and the result decoded at most once; after an
\* error in writing a frame the query is not run, after an error of the query
\* nothing is decoded, and once the invocation has failed nothing of it moves
\* (no further row is read) until the caller invokes again.
C17_FailureIsTerminal ==
    /\ [](\A w \in Workers : AttemptedOnce(call[w]))
    /\ [][\A w \in Workers :
            call[w].pc = "Failed" => (call'[w] = call[w] \/ call'[w].pc = "Created")]_vars

\* a decode error on the first row of a result that has a row more
C17_Witness ==
    \E w \in Workers :
        /\ FailedIn(call[w], "Decoding")
        /\ call[w].err = "unsupported value type for column"
        /\ call[w].nNext = 1 /\ call[w].iter # <<>>

\* the error kind of the step whose return statement produced the error:
\* writeDataframeToDb, engine.Query or convertToDataFrame
ErrorKind(err) ==
    CASE err \in {"input frame is nil", "error inserting row"} -> "MaterializationError"
      [] err = "query error" -> "ExecutionError"
      [] err \in {"unsupported type for column", "unsupported value type for column",
                  "error reading row"} -> "DecodeError"
      [] OTHER -> "none"

\* C18: a failed invocation returns one error, of the kind of the phase that
\* failed: MaterializationError from writing the frames, ExecutionError from
\* the query, DecodeError from decoding; and when an input frame has a field
\* of an unsupported type the error is a MaterializationError.
C18_ErrorKindByPhase ==
    \A w \in Workers :
        LET c == call[w] IN
        c.pc = "Failed" =>
            /\ FailedIn(c, "Materializing") <=> ErrorKind(c.err) = "MaterializationError"
            /\ FailedIn(c, "Executing") <=> ErrorKind(c.err) = "ExecutionError"
            /\ FailedIn(c, "Decoding") <=> ErrorKind(c.err) = "DecodeError"
            /\ (\E k \in 1..Len(c.frames) :
                    ~c.frames[k].isNil /\ HasUnsupportedField(c.frames[k]))
                 => ErrorKind(c.err) = "MaterializationError"

\* C19: the input frames of an invocation are, at every step and after its
\* end, as the caller handed them in: same names, fields, types and values.
\* (The output frame is a frame of its own, not one of the input frames.)
C19_InputFramesUntouched ==
    \A w \in Workers :
        call[w].pc # "idle" => call[w].frames = call[w].frames0

\* an invocation has written both rows of a frame named otherwise than its
\* table, run the query and returned
C19_Witness ==
    \E w \in Workers :
        /\ call[w].pc = "Succeeded"
        /\ call[w].frames = <<FrameA>> /\ call[w].tableName # FrameA.name
        /\ call[w].ins = <<2>>

\* the column types C20 allows for a supported field type
ClaimedColumnTypes(fieldType) ==
    CASE fieldType \in {"Int8", "Int16", "Int32", "Int64",
                        "Uint8", "Uint16", "Uint32", "Uint64"} -> {"Int64", "Uint64"}
      [] fieldType \in {"Float32", "Float64"} -> {"Float64"}
      [] fieldType = "String" -> {"Text"}
      [] fieldType = "Bool" -> {"Boolean"}
      [] fieldType = "Time" -> {"Timestamp"}

\* the invocation of worker w has just created the table of its frame i and
\* the database still holds it
OwnTableAdded(w) ==
    LET c == call[w] IN
    /\ c.pc = "Materializing" /\ c.added
    /\ tables[c.tableName].owner = Owner(w, c)

\* C20: the table made for a frame gives every field of a supported type a
\* column of the type claimed for it (integers of every width a 64-bit
\* integer type, floats the 64-bit float, String text, Bool boolean, Time
\* timestamp), and two fields of the same type get the same column type,
\* whichever invocation wrote them.
C20_ColumnTypes ==
    \A w \in Workers :
        OwnTableAdded(w) =>
            LET fields == call[w].frames[call[w].i].fields
                schema == tables[call[w].tableName].schema
            IN
            /\ Len(schema) = Len(fields)
            /\ \A j \in 1..Len(fields) :
                   fields[j].type \in SupportedFieldTypes =>
                       schema[j].type \in ClaimedColumnTypes(fields[j].type)
            /\ \A v \in Workers :
                   OwnTableAdded(v) =>
                       \A j \in 1..Len(fields) :
                       \A m \in 1..Len(call[v].frames[call[v].i].fields) :
                           call[v].frames[call[v].i].fields[m].type = fields[j].type =>
                               tables[call[v].tableName].schema[m].type = schema[j].type

\* the table of a frame with a 32-bit float field has a 64-bit float column
C20_Witness ==
    \E w \in Workers :
        /\ OwnTableAdded(w)
        /\ call[w].frames = <<TypeFrame("Float32")>>
        /\ tables[call[w].tableName].schema[1].type = "Float64"

\* the field type C21 claims for a column of a declared type; "" where the
\* claim names none
ClaimedFieldType(colType) ==
    CASE colType \in {"Int8", "Int16", "Int64", "Uint64"} -> "Int64"
      [] colType = "Float64" -> "Float64"
      [] colType \in {"Text", "LongText"} -> "String"
      [] colType = "Boolean" -> "Bool"
      [] colType = "Timestamp" -> "Time"
      [] OTHER -> ""

\* C21: once the first loop of convertToDataFrame has run on a fresh output
\* frame, the frame has one field per column of the result schema, in column
\* order, named by the column and of the type claimed for the column's
\* declared type: integer 64-bit integer, floating Float64, text string,
\* boolean bool, timestamp time.
C21_FieldsFromSchema ==
    \A w \in Workers :
        LET c == call[w] IN
        (/\ c.nDec = 1 /\ c.f0 = EmptyFrame
         /\ \A j \in 1..Len(c.schema) : ClaimedFieldType(c.schema[j].type) # "") =>
            /\ Len(c.f.fields) = Len(c.schema)
            /\ \A j \in 1..Len(c.schema) :
                   /\ c.f.fields[j].name = c.schema[j].name
                   /\ c.f.fields[j].type = ClaimedFieldType(c.schema[j].type)

\* the value C22 expects in the output field for a result value: the same
\* kind and value, an int8 counting as the integer it is
PassedThrough(val) == IF val.k = "int8" THEN Val("int64", val.v) ELSE val

\* C22: when every value of the result is an integer, a float, a string or
\* a bool, the invocation (with a fresh output frame) succeeds and value k of
\* field j is the value of row k, column j, of the same kind and value.
C22_ValuesPassThrough ==
    \A w \in Workers :
        LET c == call[w]
            rows == ResultRows(c)
        IN
        (/\ Finished(c) /\ Executed(c)
         /\ ~Query(c.seen, c.query).err /\ ~c.rowErr
         /\ c.f0 = EmptyFrame
         /\ \A k \in 1..Len(rows) : \A j \in 1..Len(rows[k]) :
                rows[k][j].k \in {"int8", "int64", "float64", "string", "bool"}) =>
            /\ c.pc = "Succeeded"
            /\ \A k \in 1..Len(rows) : \A j \in 1..Len(rows[k]) :
                   c.f.fields[j].vals[k] = PassedThrough(rows[k][j])

\* the table is what an aborted writeDataframeToDb leaves of the frame: the
\* frame's columns and its rows before row i, row i being refused
LeftPartial(t, frame) ==
    /\ ~frame.isNil /\ t.exists
    /\ Len(t.schema) = Len(frame.fields)
    /\ \A j \in 1..Len(t.schema) :
           /\ t.schema[j].name = frame.fields[j].name
           /\ t.schema[j].type = convertDataType(frame.fields[j].type)
    /\ Len(t.rows) < Rows(frame)
    /\ t.rows = SubSeq(AllRows(frame), 1, Len(t.rows))
    /\ ~CheckRow(t.schema, FrameRow(frame, Len(t.rows)))

\* C23: the table a query reads is never the partly filled table that an
\* aborted materialization of some input frame has left, in the same
\* invocation or in a later one on the handle.
C23_NoPartialTableRead ==
    \A w \in Workers :
        LET c == call[w] IN
        (Executed(c) /\ c.query.kind \in {"star", "scalar"} /\ c.query.tbl \in TableNames) =>
            \A in \in Inputs(scen) : \A k \in 1..Len(in.frames) :
                ~LeftPartial(c.seen[c.query.tbl], in.frames[k])

\* the invocation has made its session and context
HasSession(c) == c.pc \notin {"idle", "Created"}

\* C24: the session and context of an invocation are its own: no earlier
\* invocation of the same caller and no invocation of another caller, before
\* or at the same time, has used them; and when engine.Query has been called
\* the current database has been selected on that context.
C24_FreshContext ==
    \A w \in Workers :
        LET c == call[w] IN
        HasSession(c) =>
            /\ c.session \notin c.past
            /\ \A v \in Workers \ {w} :
                   HasSession(call[v]) =>
                       c.session # call[v].session /\ c.session \notin call[v].past
            /\ c.nExec >= 1 => c.currentDb = dbName

\* two invocations at the same time, both past engine.Query
C24_Witness ==
    \E w \in Workers : \E v \in Workers \ {w} :
        /\ call[w].pc = "Decoding" /\ call[v].pc = "Decoding"
        /\ call[w].currentDb = dbName /\ call[v].currentDb = dbName

\* C25: an invocation that got a row iterator from engine.Query has closed
\* it by the time it returns, after the end of the rows and after an error
\* of reading or decoding alike.
C25_CursorReleased ==
    \A w \in Workers :
        (call[w].pc \in Terminal /\ call[w].cursor # "none") => call[w].cursor = "closed"

\* C26: an invocation that has begun to decode a result goes on to return:
\* it reaches Succeeded or Failed.
C26_DecodingTerminates ==
    \A w \in Workers : (call[w].pc = "Decoding") ~> (call[w].pc \in Terminal)

\* C27: decoding into a fresh output frame, every value of the row about to
\* be read that is handed to Append is of the element type of its field: an
\* int64 for a field made from a number column, a string for one made from a
\* string column.
C27_AppendedValueFitsField ==
    \A w \in Workers :
        LET c == call[w] IN
        (/\ c.pc = "Decoding" /\ c.fieldsDone
         /\ ~c.rowErr /\ c.iter # <<>>
         /\ c.f0 = EmptyFrame) =>
            DecodeRow(Head(c.iter), 1, c.f.fields).err # "panic"

\* C28: whatever the output frame held when it was handed in, after a
\* successful invocation it has one field per column of the result, named by
\* the column, and field j holds the values of column j, row by row.
C28_ReusedOutputFrame ==
    \A w \in Workers :
        LET c == call[w]
            rows == ResultRows(c)
        IN
        c.pc = "Succeeded" =>
            /\ Len(c.f.fields) = Len(c.schema)
            /\ \A j \in 1..Len(c.schema) :
                   /\ c.f.fields[j].name = c.schema[j].name
                   /\ c.f.fields[j].vals = [k \in 1..Len(rows) |-> PassedThrough(rows[k][j])]

FirstNil(frames) ==
    CHOOSE k \in 1..Len(frames) :
        frames[k].isNil /\ \A m \in 1..(k - 1) : ~frames[m].isNil

\* C30: in an invocation whose frame list has a nil element the query is
\* never run; once the loop has reached the first nil element the invocation
\* has returned "input frame is nil", having made no table for that element,
\* written none of the frames after it and added no field to the output
\* frame; and it fails nowhere else when the frames before can be written.
C30_NilFrame ==
    \A w \in Workers :
        LET c == call[w] IN
        (c.pc # "idle" /\ \E k \in 1..Len(c.frames) : c.frames[k].isNil) =>
            LET k == FirstNil(c.frames) IN
            /\ c.nExec = 0 /\ c.cursor = "none"
            /\ c.i <= k
            /\ c.nMat[k] = 1 =>
                   /\ c.pc = "Failed" /\ c.err = "input frame is nil"
                   /\ tables[c.tableName].owner # <<w, ncalls[w], k>>
                   /\ \A m \in (k + 1)..Len(c.frames) : c.nMat[m] = 0 /\ c.ins[m] = 0
                   /\ c.f.fields = c.f0.fields
            /\ (c.pc = "Failed" /\ \A m \in 1..(k - 1) : Insertable(c.tableName, c.frames[m])) =>
                   c.nMat[k] = 1

\* the call failed on a nil first element with a frame after it
C30_Witness ==
    \E w \in Workers :
        /\ call[w].pc = "Failed" /\ call[w].err = "input frame is nil"
        /\ call[w].frames = <<NilFrame, FrameA>>
        /\ call[w].nMat = <<1, 0>>

====
